---------------------------- MODULE Spec2Model ----------------------------
(***************************************************************************)
(* LedgerApp_v2: the budget accounting and scoping engine.                 *)
(*                                                                         *)
(* The relational store is the state (one variable per table), every       *)
(* request handler is one action that runs in its own database session:    *)
(* it either commits all its writes or, on any error, leaves the store     *)
(* unchanged.  The last response is kept in `resp`.                        *)
(*                                                                         *)
(* Conventions                                                             *)
(*   - nullable id columns hold NULL (0): ids start at 1, and the code     *)
(*     tests them by truthiness (`x or y`, `if x:`), under which Python's  *)
(*     None and 0 agree;                                                   *)
(*   - nullable Decimal values are None (<<>>) or Some(v) (<<v>>), so     *)
(*     that "unset" and 0.00 stay different values;                        *)
(*   - money in requests is counted in half-cents (0.005), money in the    *)
(*     store and in responses in cents: the schemas round to 2 places;     *)
(*   - dates are day numbers;                                              *)
(*   - a percentage is the exact fraction [num, den] in lowest terms (the  *)
(*     code's float of a 28-digit Decimal quotient).                       *)
(***************************************************************************)
EXTENDS Integers, Sequences, FiniteSets, TLC

(***************************************************************************)
(* Bounds of the model.                                                    *)
(***************************************************************************)
NumUsers == 2
MaxFamilies == 2
MaxDate == 4
MaxBudgets == 2
MaxTransactions == 2
MaxCreditSources == 1
NumCategories == 2
MaxInvites == 2
MaxTicks == 3

NULL == 0

Users == 1..NumUsers
FamilyIds == 1..MaxFamilies
Dates == 1..MaxDate
Categories == 1..NumCategories

None == <<>>
Some(v) == <<v>>
IsSet(x) == x # None
Val(x) == x[1]

VARIABLES
    active_family_id,   \* users.active_family_id, per user
    families,           \* table families: [id, name, created_by]
    family_members,     \* table family_members: [id, family_id, user_id, role]
    family_invites,     \* table family_invites
    now,                \* datetime.utcnow(), in days
    budgets,            \* table budgets, with its budget_categories rows
    transactions,       \* table transactions
    credit_sources,     \* table credit_sources
    next_id,            \* the serial primary keys, per table
    inflight,           \* create_budget requests suspended at an await
    resp                \* the last response sent

vars == <<active_family_id, families, family_members, family_invites, now,
          budgets, transactions, credit_sources, next_id, inflight, resp>>

db == <<active_family_id, families, family_members, family_invites, now,
        budgets, transactions, credit_sources, next_id>>

(***************************************************************************)
(* Arithmetic helpers.                                                     *)
(***************************************************************************)
Abs(n) == IF n < 0 THEN -n ELSE n

RECURSIVE Gcd(_, _)
Gcd(a, b) == IF b = 0 THEN a ELSE Gcd(b, a % b)

RECURSIVE SumSeq(_)
SumSeq(s) == IF s = <<>> THEN 0 ELSE Head(s) + SumSeq(Tail(s))

RECURSIVE SumAmounts(_)
SumAmounts(S) ==
    IF S = {} THEN 0
    ELSE LET t == CHOOSE x \in S : TRUE IN t.amount + SumAmounts(S \ {t})

Range(s) == {s[i] : i \in DOMAIN s}

\* round(v, 2) of a Decimal given in half-cents: to cents, ties to even.
Round2(h) ==
    LET q == h \div 2
    IN  IF h % 2 = 0 THEN q ELSE IF q % 2 = 0 THEN q ELSE q + 1

Round2Opt(x) == IF IsSet(x) THEN Some(Round2(Val(x))) ELSE None

\* bool(Decimal): an unset value and a zero are both falsy.
Truthy(x) == IsSet(x) /\ Val(x) # 0

\* float((a / b) * 100), b # 0, as a fraction in lowest terms.
Percent(a, b) ==
    LET n == 100 * a * (IF b < 0 THEN -1 ELSE 1)
        d == Abs(b)
        g == Gcd(Abs(n), d)
    IN  [num |-> n \div g, den |-> d \div g]

(***************************************************************************)
(* Responses.                                                              *)
(***************************************************************************)
NoStats == [total_spent |-> 0, total_remaining |-> None,
            overall_utilization_percent |-> None, categories |-> {}]

\* A response: the operation answered, the caller, the status, the id of the
\* record created, read, changed or not found, the ids of a list, a budget's
\* statistics.
Response(op, actor, status, id, ids, stats) ==
    [op |-> op, actor |-> actor, status |-> status,
     id |-> id, ids |-> ids, stats |-> stats]

NoResponse == Response("none", NULL, "none", NULL, {}, NoStats)

Fail(op, actor, status) == Response(op, actor, status, NULL, {}, NoStats)

\* The response of a request under /families/{family_id}.
FamilyResponse(op, actor, status, family_id, id, ids) ==
    [op |-> op, actor |-> actor, status |-> status, id |-> id, ids |-> ids,
     stats |-> NoStats, family_id |-> family_id]

(***************************************************************************)
(* Budget Engine: spend aggregation (routers/budgets.py).                  *)
(***************************************************************************)
\* SELECT SUM(amount) over the rows of S: SQL's SUM of no row is NULL.
SqlSum(S) == IF S = {} THEN None ELSE Some(SumAmounts(S))

\* `result.scalar() or Decimal("0.00")`
ScalarOrZero(x) == IF Truthy(x) THEN Val(x) ELSE 0

\* Mutant of BudgetSpendingRows: the period's last day left out.
BudgetSpendingRowsExclusiveEnd(budget, txns) ==
    {t \in txns :
        /\ t.user_id = budget.user_id
        /\ t.transaction_type = "expense"
        /\ t.t_date >= budget.period_start
        /\ t.t_date < budget.period_end
        /\ (budget.family_id # NULL => t.family_id = budget.family_id)}

\* Mutant of BudgetSpendingRows: the transaction type not looked at.
BudgetSpendingRowsAnyType(budget, txns) ==
    {t \in txns :
        /\ t.user_id = budget.user_id
        /\ t.t_date >= budget.period_start
        /\ t.t_date <= budget.period_end
        /\ (budget.family_id # NULL => t.family_id = budget.family_id)}

\* The WHERE clause of calculate_budget_spending: the owner's expenses dated
\* inside the period, and of the budget's family only if the budget has one.
BudgetSpendingRows(budget, txns) ==
    {t \in txns :
        /\ t.user_id = budget.user_id
        /\ t.transaction_type = "expense"
        /\ t.t_date >= budget.period_start
        /\ t.t_date <= budget.period_end
        /\ (budget.family_id # NULL => t.family_id = budget.family_id)}

calculate_budget_spending(budget, txns) ==
    LET total_spent == ScalarOrZero(SqlSum(BudgetSpendingRows(budget, txns)))
        has_total == Truthy(budget.total_budget)
    IN  [total_spent |-> total_spent,
         total_remaining |->
            IF has_total THEN Some(Val(budget.total_budget) - total_spent)
            ELSE None,
         overall_utilization_percent |->
            IF has_total /\ Val(budget.total_budget) > 0
            THEN Some(Percent(total_spent, Val(budget.total_budget)))
            ELSE None]

\* Mutant of CategorySpendingRows: the category not looked at.
CategorySpendingRowsAnyCategory(budget_category, budget, txns) ==
    {t \in txns :
        /\ t.user_id = budget.user_id
        /\ t.transaction_type = "expense"
        /\ t.t_date >= budget.period_start
        /\ t.t_date <= budget.period_end
        /\ (budget.family_id # NULL => t.family_id = budget.family_id)}

\* Mutant of CategorySpendingRows: the transaction type not looked at.
CategorySpendingRowsAnyType(budget_category, budget, txns) ==
    {t \in txns :
        /\ t.user_id = budget.user_id
        /\ t.category_id = budget_category.category_id
        /\ t.t_date >= budget.period_start
        /\ t.t_date <= budget.period_end
        /\ (budget.family_id # NULL => t.family_id = budget.family_id)}

\* The WHERE clause of calculate_category_spending.
CategorySpendingRows(budget_category, budget, txns) ==
    {t \in txns :
        /\ t.user_id = budget.user_id
        /\ t.transaction_type = "expense"
        /\ t.category_id = budget_category.category_id
        /\ t.t_date >= budget.period_start
        /\ t.t_date <= budget.period_end
        /\ (budget.family_id # NULL => t.family_id = budget.family_id)}

calculate_category_spending(budget_category, budget, txns) ==
    LET spent_amount ==
            ScalarOrZero(SqlSum(CategorySpendingRows(budget_category, budget, txns)))
    IN  [category_id |-> budget_category.category_id,
         allocated_amount |-> budget_category.allocated_amount,
         spent_amount |-> spent_amount,
         remaining_amount |-> budget_category.allocated_amount - spent_amount,
         utilization_percent |->
            IF budget_category.allocated_amount > 0
            THEN Some(Percent(spent_amount, budget_category.allocated_amount))
            ELSE None]

\* The body of a BudgetResponse: the budget's statistics and one entry per
\* budget_categories row.
BudgetStats(budget, txns) ==
    LET s == calculate_budget_spending(budget, txns)
    IN  [total_spent |-> s.total_spent,
         total_remaining |-> s.total_remaining,
         overall_utilization_percent |-> s.overall_utilization_percent,
         categories |->
            {calculate_category_spending(bc, budget, txns) :
                bc \in budget.budget_categories}]

(***************************************************************************)
(* Budget schemas (schemas/budget.py).  A BudgetCreate request is          *)
(*   [family_id, period_start, period_end, total_budget, is_active,        *)
(*    category_allocations]                                                *)
(* with category_allocations a list of [category_id, allocated_amount].    *)
(* A BudgetUpdate request holds each field as None (unset) or Some(value). *)
(***************************************************************************)
\* BudgetCategoryAllocationBase: allocated_amount has ge=0.
AllocationsNonNegative(allocations) ==
    \A i \in DOMAIN allocations : allocations[i].allocated_amount >= 0

\* BudgetCategoryAllocationBase.validate_amount on every element.
RoundAllocations(allocations) ==
    [i \in DOMAIN allocations |->
        [category_id |-> allocations[i].category_id,
         allocated_amount |-> Round2(allocations[i].allocated_amount)]]

AllocatedAmounts(allocations) ==
    [i \in DOMAIN allocations |-> allocations[i].allocated_amount]

\* BudgetBase.validate_period
validate_period(period_start, period_end) == period_end > period_start

\* Mutant of validate_allocations: allocations that use the total up rejected.
validate_allocations_strict(v, total_budget) ==
    (v # <<>> /\ IsSet(total_budget))
        => SumSeq(AllocatedAmounts(v)) < Val(total_budget)

\* BudgetCreate.validate_allocations, on the validated (rounded) values.
validate_allocations(v, total_budget) ==
    (v # <<>> /\ IsSet(total_budget))
        => SumSeq(AllocatedAmounts(v)) <= Val(total_budget)

\* Whether pydantic accepts the body as a BudgetCreate.
BudgetCreateValid(req) ==
    /\ AllocationsNonNegative(req.category_allocations)
    /\ validate_period(req.period_start, req.period_end)
    /\ validate_allocations(RoundAllocations(req.category_allocations),
                            Round2Opt(req.total_budget))

\* Whether pydantic accepts the body as a BudgetUpdate.
BudgetUpdateValid(req) ==
    IsSet(req.category_allocations)
        => AllocationsNonNegative(Val(req.category_allocations))

(***************************************************************************)
(* Table constraints (models/budget.py).                                   *)
(***************************************************************************)
\* Mutant of BudgetRowOk: the table without CHECK valid_period.
BudgetRowOkNoPeriodCheck(b, fams) ==
    b.family_id = NULL \/ \E f \in fams : f.id = b.family_id

\* Budget: the foreign key to families and CHECK valid_period.
BudgetRowOk(b, fams) ==
    /\ b.family_id = NULL \/ \E f \in fams : f.id = b.family_id
    /\ b.period_end > b.period_start

\* BudgetCategory rows: the foreign key to categories, UNIQUE (budget_id,
\* category_id) and CHECK non_negative_allocation.
BudgetCategoryRowsOk(allocations) ==
    /\ \A i \in DOMAIN allocations :
          /\ allocations[i].category_id \in Categories
          /\ allocations[i].allocated_amount >= 0
    /\ \A i, j \in DOMAIN allocations :
          allocations[i].category_id = allocations[j].category_id => i = j

(***************************************************************************)
(* create_budget (routers/budgets.py).                                     *)
(***************************************************************************)
\* `budget_data.family_id or current_user.active_family_id`
EffectiveFamilyId(explicit, active) == IF explicit # NULL THEN explicit ELSE active

\* Mutant of OverlapCondition: the third case (the existing period lies
\* inside the new one) forgotten.
OverlapConditionTwoCases(b, new_start, new_end) ==
    \/ b.period_start <= new_start /\ b.period_end >= new_start
    \/ b.period_start <= new_end /\ b.period_end >= new_end

\* The or_() of the overlap query: the three cases the code lists.
OverlapCondition(b, new_start, new_end) ==
    \/ b.period_start <= new_start /\ b.period_end >= new_start
    \/ b.period_start <= new_end /\ b.period_end >= new_end
    \/ b.period_start >= new_start /\ b.period_end <= new_end

\* The rows of overlap_query.
OverlapQuery(rows, user_id, family_id, new_start, new_end) ==
    {b \in rows :
        /\ b.user_id = user_id
        /\ b.family_id = family_id
        /\ b.is_active
        /\ OverlapCondition(b, new_start, new_end)}

\* "Validate category IDs exist": as many categories found as ids given.
CategoryIdsValid(allocations) ==
    allocations # <<>> =>
        Cardinality({c \in Categories :
                        \E i \in DOMAIN allocations : allocations[i].category_id = c})
            = Len(allocations)

\* The handler up to its first write: what it answers, or "pass".
\* scalar_one_or_none() raises MultipleResultsFound on two rows or more.
CreateBudgetValidation(rows, user_id, family_id, req) ==
    LET overlapping == OverlapQuery(rows, user_id, family_id,
                                    req.period_start, req.period_end)
    IN  IF Cardinality(overlapping) > 1 THEN "multiple_results_500"
        ELSE IF overlapping # {} THEN "overlap_400"
        ELSE IF ~CategoryIdsValid(req.category_allocations) THEN "invalid_category_400"
        ELSE "pass"

NewBudget(id, user_id, family_id, req) ==
    [id |-> id,
     user_id |-> user_id,
     family_id |-> family_id,
     period_start |-> req.period_start,
     period_end |-> req.period_end,
     total_budget |-> Round2Opt(req.total_budget),
     is_active |-> req.is_active,
     budget_categories |-> Range(RoundAllocations(req.category_allocations))]

\* Mutant of CreateBudgetWrite: the write serialized with the overlap check
\* (the check repeated under a lock at commit time).
CreateBudgetWriteSerialized(actor, family_id, req) ==
    LET b == NewBudget(next_id.budget, actor, family_id, req)
    IN  IF /\ BudgetRowOk(b, families)
           /\ OverlapQuery(budgets, actor, family_id,
                           req.period_start, req.period_end) = {}
        THEN /\ next_id.budget <= MaxBudgets
             /\ budgets' = budgets \cup {b}
             /\ next_id' = [next_id EXCEPT !.budget = @ + 1]
             /\ resp' = Response("create_budget", actor, "created_201", b.id,
                                 {}, BudgetStats(b, transactions))
        ELSE /\ UNCHANGED <<budgets, next_id>>
             /\ resp' = Fail("create_budget", actor, "integrity_error_500")

\* session.add, flush, the allocations, commit: all or nothing.
CreateBudgetWrite(actor, family_id, req) ==
    LET b == NewBudget(next_id.budget, actor, family_id, req)
    IN  IF BudgetRowOk(b, families)
        THEN /\ next_id.budget <= MaxBudgets
             /\ budgets' = budgets \cup {b}
             /\ next_id' = [next_id EXCEPT !.budget = @ + 1]
             /\ resp' = Response("create_budget", actor, "created_201", b.id,
                                 {}, BudgetStats(b, transactions))
        ELSE /\ UNCHANGED <<budgets, next_id>>
             /\ resp' = Fail("create_budget", actor, "integrity_error_500")

create_budget(actor, req) ==
    /\ UNCHANGED <<active_family_id, families, family_members, family_invites, now,
                   transactions,
                   credit_sources, inflight>>
    /\ IF ~BudgetCreateValid(req)
       THEN /\ UNCHANGED <<budgets, next_id>>
            /\ resp' = Fail("create_budget", actor, "validation_error_422")
       ELSE LET family_id == EffectiveFamilyId(req.family_id, active_family_id[actor])
                verdict == CreateBudgetValidation(budgets, actor, family_id, req)
            IN  IF verdict # "pass"
                THEN /\ UNCHANGED <<budgets, next_id>>
                     /\ resp' = Fail("create_budget", actor, verdict)
                ELSE CreateBudgetWrite(actor, family_id, req)

(***************************************************************************)
(* update_budget, delete_budget, get_budget, list_budgets.                 *)
(***************************************************************************)
\* `select(Budget).where(Budget.id == budget_id, Budget.user_id == user.id)`
OwnBudgets(actor, budget_id) ==
    {b \in budgets : b.id = budget_id /\ b.user_id = actor}

\* The setattr loop over model_dump(exclude_unset=True), then the
\* replacement of the allocations when a list is given.
PatchedBudget(b, req) ==
    [id |-> b.id,
     user_id |-> b.user_id,
     family_id |-> b.family_id,
     period_start |-> IF IsSet(req.period_start) THEN Val(req.period_start)
                      ELSE b.period_start,
     period_end |-> IF IsSet(req.period_end) THEN Val(req.period_end)
                    ELSE b.period_end,
     total_budget |-> IF IsSet(req.total_budget) THEN Round2Opt(Val(req.total_budget))
                      ELSE b.total_budget,
     is_active |-> IF IsSet(req.is_active) THEN Val(req.is_active) ELSE b.is_active,
     budget_categories |->
        IF IsSet(req.category_allocations)
        THEN Range(RoundAllocations(Val(req.category_allocations)))
        ELSE b.budget_categories]

\* The sum of the stored allocations of a budget, in cents.
StoredAllocationSum(b) ==
    SumAmounts({[id |-> bc.category_id, amount |-> bc.allocated_amount] :
                   bc \in b.budget_categories})

\* What the flush and commit of update_budget raise on: the constraints of
\* the patched row and of the new allocation rows.
UpdateRowsOk(nb, req) ==
    /\ BudgetRowOk(nb, families)
    /\ IsSet(req.category_allocations) =>
          BudgetCategoryRowsOk(RoundAllocations(Val(req.category_allocations)))

\* Mutant of UpdateBudgetValidation: the allocation sum checked against the
\* total of the patched budget, as on create.
UpdateBudgetValidationChecked(actor, budget_id, req) ==
    IF ~BudgetUpdateValid(req) THEN "validation_error_422"
    ELSE IF OwnBudgets(actor, budget_id) = {} THEN "not_found_404"
    ELSE LET nb == PatchedBudget(CHOOSE x \in OwnBudgets(actor, budget_id) : TRUE, req)
         IN  IF /\ nb.budget_categories # {}
                /\ IsSet(nb.total_budget)
                /\ StoredAllocationSum(nb) > Val(nb.total_budget)
             THEN "validation_error_422"
             ELSE IF UpdateRowsOk(nb, req) THEN "pass"
             ELSE "integrity_error_500"

\* What update_budget answers, or "pass" when it commits the patched row.
UpdateBudgetValidation(actor, budget_id, req) ==
    IF ~BudgetUpdateValid(req) THEN "validation_error_422"
    ELSE IF OwnBudgets(actor, budget_id) = {} THEN "not_found_404"
    ELSE IF UpdateRowsOk(PatchedBudget(CHOOSE x \in OwnBudgets(actor, budget_id) : TRUE,
                                       req), req)
    THEN "pass"
    ELSE "integrity_error_500"

update_budget(actor, budget_id, req) ==
    /\ UNCHANGED <<active_family_id, families, family_members, family_invites, now,
                   transactions,
                   credit_sources, next_id, inflight>>
    /\ LET verdict == UpdateBudgetValidation(actor, budget_id, req)
       IN  IF verdict = "not_found_404"
           THEN /\ UNCHANGED budgets
                /\ resp' = Response("update_budget", actor, "not_found_404",
                                    budget_id, {}, NoStats)
           ELSE IF verdict # "pass"
           THEN /\ UNCHANGED budgets
                /\ resp' = Fail("update_budget", actor, verdict)
           ELSE LET b == CHOOSE x \in OwnBudgets(actor, budget_id) : TRUE
                    nb == PatchedBudget(b, req)
                IN  /\ budgets' = (budgets \ {b}) \cup {nb}
                    /\ resp' = Response("update_budget", actor, "ok_200", nb.id,
                                        {}, BudgetStats(nb, transactions))

delete_budget(actor, budget_id) ==
    /\ UNCHANGED <<active_family_id, families, family_members, family_invites, now,
                   transactions,
                   credit_sources, next_id, inflight>>
    /\ IF OwnBudgets(actor, budget_id) = {}
       THEN /\ UNCHANGED budgets
            /\ resp' = Response("delete_budget", actor, "not_found_404", budget_id,
                                 {}, NoStats)
       ELSE /\ budgets' = budgets \ OwnBudgets(actor, budget_id)
            /\ resp' = Response("delete_budget", actor, "deleted_204", budget_id,
                                {}, NoStats)

get_budget(actor, budget_id) ==
    /\ UNCHANGED <<db, inflight>>
    /\ IF OwnBudgets(actor, budget_id) = {}
       THEN resp' = Response("get_budget", actor, "not_found_404", budget_id,
                                 {}, NoStats)
       ELSE LET b == CHOOSE x \in OwnBudgets(actor, budget_id) : TRUE
            IN  resp' = Response("get_budget", actor, "ok_200", b.id, {},
                                 BudgetStats(b, transactions))

\* The rows list_budgets selects (all pages together); is_active is the
\* optional query parameter, None when absent.
ListBudgetsQuery(actor, is_active) ==
    {b \in budgets :
        /\ b.user_id = actor
        /\ IF active_family_id[actor] # NULL
           THEN b.family_id = active_family_id[actor]
           ELSE b.family_id = NULL
        /\ IsSet(is_active) => b.is_active = Val(is_active)}

list_budgets(actor, is_active) ==
    /\ UNCHANGED <<db, inflight>>
    /\ resp' = Response("list_budgets", actor, "ok_200", NULL,
                        {b.id : b \in ListBudgetsQuery(actor, is_active)}, NoStats)

(***************************************************************************)
(* Transactions (routers/transactions.py).  A TransactionCreate request is *)
(*   [amount, transaction_type, category_id, t_date].                      *)
(***************************************************************************)
\* TransactionBase: amount has gt=0, transaction_type matches income|expense.
TransactionCreateValid(req) ==
    /\ req.amount > 0
    /\ req.transaction_type \in {"income", "expense"}

\* Transaction(**transaction_dict, user_id=current_user.id): the schema has
\* no family_id field, so the column keeps its default, NULL.
NewTransaction(id, actor, req) ==
    [id |-> id,
     user_id |-> actor,
     family_id |-> NULL,
     amount |-> Round2(req.amount),
     transaction_type |-> req.transaction_type,
     category_id |-> req.category_id,
     t_date |-> req.t_date]

\* Transaction.__table_args__: CHECK positive_amount.
TransactionRowOk(t) == t.amount > 0

create_transaction(actor, req) ==
    /\ UNCHANGED <<active_family_id, families, family_members, family_invites, now,
                   budgets,
                   credit_sources, inflight>>
    /\ IF ~TransactionCreateValid(req)
       THEN /\ UNCHANGED <<transactions, next_id>>
            /\ resp' = Fail("create_transaction", actor, "validation_error_422")
       ELSE IF req.category_id \notin Categories
       THEN /\ UNCHANGED <<transactions, next_id>>
            /\ resp' = Fail("create_transaction", actor, "not_found_404")
       ELSE LET t == NewTransaction(next_id.transaction, actor, req)
            IN  IF TransactionRowOk(t)
                THEN /\ next_id.transaction <= MaxTransactions
                     /\ transactions' = transactions \cup {t}
                     /\ next_id' = [next_id EXCEPT !.transaction = @ + 1]
                     /\ resp' = Response("create_transaction", actor, "created_201",
                                         t.id, {}, NoStats)
                ELSE /\ UNCHANGED <<transactions, next_id>>
                     /\ resp' = Fail("create_transaction", actor, "integrity_error_500")

\* The rows list_transactions selects when no filter parameter is given.
ListTransactionsQuery(actor) == {t \in transactions : t.user_id = actor}

list_transactions(actor) ==
    /\ UNCHANGED <<db, inflight>>
    /\ resp' = Response("list_transactions", actor, "ok_200", NULL,
                        {t.id : t \in ListTransactionsQuery(actor)}, NoStats)

\* Mutant of OwnTransactions: the row looked up by id alone.
OwnTransactionsAnyUser(actor, transaction_id) ==
    {t \in transactions : t.id = transaction_id}

OwnTransactions(actor, transaction_id) ==
    {t \in transactions : t.id = transaction_id /\ t.user_id = actor}

get_transaction(actor, transaction_id) ==
    /\ UNCHANGED <<db, inflight>>
    /\ IF OwnTransactions(actor, transaction_id) = {}
       THEN resp' = Response("get_transaction", actor, "not_found_404",
                             transaction_id, {}, NoStats)
       ELSE resp' = Response("get_transaction", actor, "ok_200", transaction_id,
                             {}, NoStats)

\* The setattr loop of update_transaction.  A TransactionUpdate request is
\* [amount, t_date], each None or Some(value); the amount is
\* round(float(v), 2), with no sign test.
PatchedTransaction(t, req) ==
    [t EXCEPT !.amount = IF IsSet(req.amount) THEN Round2(Val(req.amount)) ELSE @,
              !.t_date = IF IsSet(req.t_date) THEN Val(req.t_date) ELSE @]

update_transaction(actor, transaction_id, req) ==
    /\ UNCHANGED <<active_family_id, families, family_members, family_invites, now,
                   budgets, credit_sources, next_id, inflight>>
    /\ IF OwnTransactions(actor, transaction_id) = {}
       THEN /\ UNCHANGED transactions
            /\ resp' = Response("update_transaction", actor, "not_found_404",
                                transaction_id, {}, NoStats)
       ELSE LET t == CHOOSE x \in OwnTransactions(actor, transaction_id) : TRUE
                nt == PatchedTransaction(t, req)
            IN  IF TransactionRowOk(nt)
                THEN /\ transactions' = (transactions \ {t}) \cup {nt}
                     /\ resp' = Response("update_transaction", actor, "ok_200",
                                         transaction_id, {}, NoStats)
                ELSE /\ UNCHANGED transactions
                     /\ resp' = Fail("update_transaction", actor,
                                     "integrity_error_500")

delete_transaction(actor, transaction_id) ==
    /\ UNCHANGED <<active_family_id, families, family_members, family_invites, now,
                   budgets, credit_sources, next_id, inflight>>
    /\ IF OwnTransactions(actor, transaction_id) = {}
       THEN /\ UNCHANGED transactions
            /\ resp' = Response("delete_transaction", actor, "not_found_404",
                                transaction_id, {}, NoStats)
       ELSE /\ transactions' = transactions \ OwnTransactions(actor, transaction_id)
            /\ resp' = Response("delete_transaction", actor, "deleted_204",
                                transaction_id, {}, NoStats)

(***************************************************************************)
(* Credit sources (routers/credit_sources.py).                             *)
(***************************************************************************)
NewCreditSource(id, actor, family_id) ==
    [id |-> id, user_id |-> actor, family_id |-> family_id, is_active |-> TRUE]

create_credit_source(actor) ==
    /\ UNCHANGED <<active_family_id, families, family_members, family_invites, now,
                   budgets,
                   transactions, inflight>>
    /\ next_id.credit_source <= MaxCreditSources
    /\ LET cs == NewCreditSource(next_id.credit_source, actor, active_family_id[actor])
       IN  /\ credit_sources' = credit_sources \cup {cs}
           /\ next_id' = [next_id EXCEPT !.credit_source = @ + 1]
           /\ resp' = Response("create_credit_source", actor, "created_201",
                               cs.id, {}, NoStats)

\* The conditions shared by list_credit_sources and list_active_credit_sources.
CreditSourceScope(actor) ==
    {cs \in credit_sources :
        /\ cs.user_id = actor
        /\ IF active_family_id[actor] # NULL
           THEN cs.family_id = active_family_id[actor]
           ELSE cs.family_id = NULL}

list_credit_sources(actor) ==
    /\ UNCHANGED <<db, inflight>>
    /\ resp' = Response("list_credit_sources", actor, "ok_200", NULL,
                        {cs.id : cs \in CreditSourceScope(actor)}, NoStats)

list_active_credit_sources(actor) ==
    /\ UNCHANGED <<db, inflight>>
    /\ resp' = Response("list_active_credit_sources", actor, "ok_200", NULL,
                        {cs.id : cs \in {x \in CreditSourceScope(actor) : x.is_active}},
                        NoStats)

OwnCreditSources(actor, credit_source_id) ==
    {cs \in credit_sources : cs.id = credit_source_id /\ cs.user_id = actor}

get_credit_source(actor, credit_source_id) ==
    /\ UNCHANGED <<db, inflight>>
    /\ IF OwnCreditSources(actor, credit_source_id) = {}
       THEN resp' = Response("get_credit_source", actor, "not_found_404",
                             credit_source_id, {}, NoStats)
       ELSE resp' = Response("get_credit_source", actor, "ok_200",
                             credit_source_id, {}, NoStats)

\* A CreditSourceUpdate request is [is_active], None or Some(flag).
update_credit_source(actor, credit_source_id, req) ==
    /\ UNCHANGED <<active_family_id, families, family_members, family_invites, now,
                   budgets, transactions, next_id, inflight>>
    /\ IF OwnCreditSources(actor, credit_source_id) = {}
       THEN /\ UNCHANGED credit_sources
            /\ resp' = Response("update_credit_source", actor, "not_found_404",
                                credit_source_id, {}, NoStats)
       ELSE /\ credit_sources' =
                  {IF cs \in OwnCreditSources(actor, credit_source_id)
                      /\ IsSet(req.is_active)
                   THEN [cs EXCEPT !.is_active = Val(req.is_active)] ELSE cs :
                      cs \in credit_sources}
            /\ resp' = Response("update_credit_source", actor, "ok_200",
                                credit_source_id, {}, NoStats)

\* delete_credit_source: a soft delete.
delete_credit_source(actor, credit_source_id) ==
    /\ UNCHANGED <<active_family_id, families, family_members, family_invites, now,
                   budgets,
                   transactions, next_id, inflight>>
    /\ LET own == {cs \in credit_sources :
                      cs.id = credit_source_id /\ cs.user_id = actor}
       IN  IF own = {}
           THEN /\ UNCHANGED credit_sources
                /\ resp' = Response("delete_credit_source", actor, "not_found_404",
                                    credit_source_id, {}, NoStats)
           ELSE /\ credit_sources' =
                      (credit_sources \ own) \cup
                          {[cs EXCEPT !.is_active = FALSE] : cs \in own}
                /\ resp' = Response("delete_credit_source", actor, "deleted_204",
                                    credit_source_id, {}, NoStats)

(***************************************************************************)
(* Families (routers/family.py).  A FamilyCreate request is                *)
(*   [name, import_existing_data, import_from_date, import_to_date,        *)
(*    import_transactions, import_budgets, import_credit_sources]          *)
(* with the two dates None or Some(date).                                  *)
(***************************************************************************)
\* _import_user_data reads `txn.date` in its loop whenever a date bound is
\* given; Transaction has no such attribute (the column is t_date), so the
\* first row raises AttributeError.
ImportRaises(user_id, cfg) ==
    /\ cfg.import_transactions
    /\ IsSet(cfg.import_from_date) \/ IsSet(cfg.import_to_date)
    /\ \E t \in transactions : t.user_id = user_id

\* _import_user_data: every row of the user gets the new family_id.
ImportRows(rows, user_id, family_id, enabled) ==
    IF enabled
    THEN {IF r.user_id = user_id THEN [r EXCEPT !.family_id = family_id] ELSE r :
             r \in rows}
    ELSE rows

create_family(actor, cfg) ==
    /\ UNCHANGED <<family_invites, now, inflight>>
    /\ IF cfg.import_existing_data /\ ImportRaises(actor, cfg)
       THEN /\ UNCHANGED db
            /\ resp' = Fail("create_family", actor, "attribute_error_500")
       ELSE LET fid == next_id.family
                do_import == cfg.import_existing_data
            IN  /\ fid <= MaxFamilies
                /\ families' = families \cup
                      {[id |-> fid, name |-> cfg.name, created_by |-> actor]}
                /\ family_members' = family_members \cup
                      {[id |-> next_id.member, family_id |-> fid,
                        user_id |-> actor, role |-> "admin"]}
                /\ transactions' = ImportRows(transactions, actor, fid,
                                       do_import /\ cfg.import_transactions)
                /\ budgets' = ImportRows(budgets, actor, fid,
                                       do_import /\ cfg.import_budgets)
                /\ credit_sources' = ImportRows(credit_sources, actor, fid,
                                       do_import /\ cfg.import_credit_sources)
                /\ active_family_id' = [active_family_id EXCEPT ![actor] = fid]
                /\ next_id' = [next_id EXCEPT !.family = @ + 1, !.member = @ + 1]
                /\ resp' = Response("create_family", actor, "ok_200", fid, {}, NoStats)

\* "Check if user is member": scalar_one_or_none() over the caller's rows
\* of the family.
OwnMemberRows(actor, family_id) ==
    {m \in family_members : m.family_id = family_id /\ m.user_id = actor}

set_active_family(actor, family_id) ==
    /\ UNCHANGED <<families, family_members, family_invites, now,
                   budgets, transactions,
                   credit_sources, next_id, inflight>>
    /\ IF Cardinality(OwnMemberRows(actor, family_id)) > 1
       THEN /\ UNCHANGED active_family_id
            /\ resp' = Fail("set_active_family", actor, "multiple_results_500")
       ELSE IF OwnMemberRows(actor, family_id) # {}
       THEN /\ active_family_id' = [active_family_id EXCEPT ![actor] = family_id]
            /\ resp' = Response("set_active_family", actor, "ok_200", family_id,
                                {}, NoStats)
       ELSE /\ UNCHANGED active_family_id
            /\ resp' = Fail("set_active_family", actor, "forbidden_403")

\* session.delete(family): the members and invites go with it (cascade
\* "all, delete-orphan"), the unit of work nulls family_id on the rows of
\* the other relationships, users.active_family_id is ON DELETE SET NULL.
Unscoped(rows, family_id) ==
    {IF r.family_id = family_id THEN [r EXCEPT !.family_id = NULL] ELSE r :
        r \in rows}

delete_family(actor, family_id) ==
    /\ UNCHANGED <<now, next_id, inflight>>
    /\ LET found == {f \in families : f.id = family_id}
       IN  IF found = {}
           THEN /\ UNCHANGED <<active_family_id, families, family_members,
                               family_invites, budgets, transactions,
                               credit_sources>>
                /\ resp' = Response("delete_family", actor, "not_found_404",
                                    family_id, {}, NoStats)
           ELSE IF \E f \in found : f.created_by # actor
           THEN /\ UNCHANGED <<active_family_id, families, family_members,
                               family_invites, budgets, transactions,
                               credit_sources>>
                /\ resp' = Fail("delete_family", actor, "forbidden_403")
           ELSE /\ families' = families \ found
                /\ family_members' =
                      {m \in family_members : m.family_id # family_id}
                /\ family_invites' =
                      {i \in family_invites : i.family_id # family_id}
                /\ budgets' = Unscoped(budgets, family_id)
                /\ transactions' = Unscoped(transactions, family_id)
                /\ credit_sources' = Unscoped(credit_sources, family_id)
                /\ active_family_id' =
                      [u \in Users |-> IF active_family_id[u] = family_id
                                       THEN NULL ELSE active_family_id[u]]
                /\ resp' = Response("delete_family", actor, "ok_200", family_id,
                                    {}, NoStats)

(***************************************************************************)
(* Members and invites (routers/family.py).  An e-mail address is         *)
(* [name, case]: the mailbox and how its local part is written; users.email*)
(* is stored as registered, user 1's in lower case, user 2's not.          *)
(***************************************************************************)
EmailCases == {"lower", "mixed"}
Emails == [name : Users, case : EmailCases]

\* users.email
EmailOf(u) == [name |-> u, case |-> IF u % 2 = 1 THEN "lower" ELSE "mixed"]

\* str.lower()
Lower(e) == [e EXCEPT !.case = "lower"]

Roles == {"admin", "member", "viewer"}

\* The admin check every admin-gated handler starts with:
\* scalar_one_or_none() over the caller's admin rows of the family.
\* Mutant of AdminRows: any membership row counts.
AdminRowsAnyRole(actor, family_id) ==
    {m \in family_members : m.family_id = family_id /\ m.user_id = actor}

AdminRows(actor, family_id) ==
    {m \in family_members :
        m.family_id = family_id /\ m.user_id = actor /\ m.role = "admin"}

AdminCheck(actor, family_id) ==
    IF Cardinality(AdminRows(actor, family_id)) > 1 THEN "multiple_results_500"
    ELSE IF AdminRows(actor, family_id) = {} THEN "forbidden_403"
    ELSE "pass"

\* "Check if user already invited": `not FamilyInvite.accepted` is Python's
\* `not` applied to the mapped attribute, an object without __bool__, hence
\* the constant False; and_(..., False) selects no row.
PendingInviteQuery(family_id, invited_email) ==
    {i \in family_invites :
        i.family_id = family_id /\ i.invited_email = invited_email /\ FALSE}

\* "Check if user already member": FamilyMember JOIN User with
\* User.email == invited_email.
MemberByEmailQuery(family_id, invited_email) ==
    {m \in family_members :
        m.family_id = family_id /\ EmailOf(m.user_id) = invited_email}

\* The handler up to its insert.
SendInviteValidation(actor, family_id, req) ==
    IF AdminCheck(actor, family_id) # "pass" THEN AdminCheck(actor, family_id)
    ELSE IF ~\E f \in families : f.id = family_id THEN "not_found_404"
    ELSE IF Cardinality(PendingInviteQuery(family_id, req.invited_email)) > 1
    THEN "multiple_results_500"
    ELSE IF PendingInviteQuery(family_id, req.invited_email) # {}
    THEN "already_invited_400"
    ELSE IF Cardinality(MemberByEmailQuery(family_id, req.invited_email)) > 1
    THEN "multiple_results_500"
    ELSE IF MemberByEmailQuery(family_id, req.invited_email) # {}
    THEN "already_member_400"
    ELSE "pass"

\* FamilyInvite(...): the token is unique, here the id; 30 days to accept.
NewInvite(id, actor, family_id, req) ==
    [id |-> id,
     family_id |-> family_id,
     invited_email |-> req.invited_email,
     invited_by_user_id |-> actor,
     role |-> req.role,
     token |-> id,
     accepted |-> FALSE,
     accepted_by_user_id |-> NULL,
     accepted_at |-> None,
     expires_at |-> now + 30]

\* A FamilyInviteCreate request is [invited_email, role]; role is any string.
send_family_invite_endpoint(actor, family_id, req) ==
    /\ UNCHANGED <<active_family_id, families, family_members, now, budgets,
                   transactions, credit_sources, inflight>>
    /\ LET verdict == SendInviteValidation(actor, family_id, req)
       IN  IF verdict # "pass"
           THEN /\ UNCHANGED <<family_invites, next_id>>
                /\ resp' = FamilyResponse("send_family_invite_endpoint", actor, verdict,
                                          family_id, NULL, {})
           ELSE /\ next_id.invite <= MaxInvites
                /\ family_invites' = family_invites \cup
                      {NewInvite(next_id.invite, actor, family_id, req)}
                /\ next_id' = [next_id EXCEPT !.invite = @ + 1]
                /\ resp' = FamilyResponse("send_family_invite_endpoint", actor,
                                          "ok_200", family_id, next_id.invite, {})

\* The rows list_family_invites selects: and_(family_id == ..., False).
ListInvitesQuery(family_id) ==
    {i \in family_invites : i.family_id = family_id /\ FALSE}

list_family_invites(actor, family_id) ==
    /\ UNCHANGED <<db, inflight>>
    /\ IF AdminCheck(actor, family_id) # "pass"
       THEN resp' = FamilyResponse("list_family_invites", actor,
                                   AdminCheck(actor, family_id), family_id, NULL, {})
       ELSE resp' = FamilyResponse("list_family_invites", actor, "ok_200",
                                   family_id, NULL,
                                   {i.id : i \in ListInvitesQuery(family_id)})

cancel_invite(actor, family_id, invite_id) ==
    /\ UNCHANGED <<active_family_id, families, family_members, now, budgets,
                   transactions, credit_sources, next_id, inflight>>
    /\ LET found == {i \in family_invites :
                        i.id = invite_id /\ i.family_id = family_id}
       IN  IF AdminCheck(actor, family_id) # "pass"
           THEN /\ UNCHANGED family_invites
                /\ resp' = FamilyResponse("cancel_invite", actor,
                                          AdminCheck(actor, family_id),
                                          family_id, invite_id, {})
           ELSE IF found = {}
           THEN /\ UNCHANGED family_invites
                /\ resp' = FamilyResponse("cancel_invite", actor, "not_found_404",
                                          family_id, invite_id, {})
           ELSE /\ family_invites' = family_invites \ found
                /\ resp' = FamilyResponse("cancel_invite", actor, "ok_200",
                                          family_id, invite_id, {})

\* Mutant of AcceptValidation: no expiry check.
AcceptValidationNoExpiry(actor, token) ==
    LET found == {i \in family_invites : i.token = token}
    IN  IF found = {} THEN "not_found_404"
        ELSE LET invite == CHOOSE i \in found : TRUE
             IN  IF invite.accepted THEN "already_accepted_400"
                 ELSE IF Lower(EmailOf(actor)) # Lower(invite.invited_email)
                 THEN "forbidden_403"
                 ELSE "pass"

\* The checks of confirm_accept_family_invite, in the handler's order.
AcceptValidation(actor, token) ==
    LET found == {i \in family_invites : i.token = token}
    IN  IF found = {} THEN "not_found_404"
        ELSE LET invite == CHOOSE i \in found : TRUE
             IN  IF invite.accepted THEN "already_accepted_400"
                 ELSE IF now > invite.expires_at THEN "expired_400"
                 ELSE IF Lower(EmailOf(actor)) # Lower(invite.invited_email)
                 THEN "forbidden_403"
                 ELSE "pass"

\* Mutant of AcceptedInvite: the flag without acceptor and timestamp.
AcceptedInviteFlagOnly(invite, actor) == [invite EXCEPT !.accepted = TRUE]

\* "Mark invite as accepted".
AcceptedInvite(invite, actor) ==
    [invite EXCEPT !.accepted = TRUE,
                   !.accepted_by_user_id = actor,
                   !.accepted_at = Some(now)]

confirm_accept_family_invite(actor, token) ==
    /\ UNCHANGED <<families, now, budgets, transactions, credit_sources, inflight>>
    /\ IF AcceptValidation(actor, token) # "pass"
       THEN /\ UNCHANGED <<active_family_id, family_members, family_invites, next_id>>
            /\ resp' = Response("confirm_accept_family_invite", actor,
                                AcceptValidation(actor, token), token, {}, NoStats)
       ELSE LET invite == CHOOSE i \in family_invites : i.token = token
            IN  /\ family_members' = family_members \cup
                      {[id |-> next_id.member, family_id |-> invite.family_id,
                        user_id |-> actor, role |-> invite.role]}
                /\ family_invites' = (family_invites \ {invite}) \cup
                      {AcceptedInvite(invite, actor)}
                /\ active_family_id' =
                      [active_family_id EXCEPT ![actor] = invite.family_id]
                /\ next_id' = [next_id EXCEPT !.member = @ + 1]
                /\ resp' = Response("confirm_accept_family_invite", actor, "ok_200",
                                    token, {}, NoStats)

\* The member row the two member handlers look up.
MemberRows(family_id, member_id) ==
    {m \in family_members : m.id = member_id /\ m.family_id = family_id}

update_member_role(actor, family_id, member_id, role) ==
    /\ UNCHANGED <<active_family_id, families, family_invites, now, budgets,
                   transactions, credit_sources, next_id, inflight>>
    /\ IF AdminCheck(actor, family_id) # "pass"
       THEN /\ UNCHANGED family_members
            /\ resp' = FamilyResponse("update_member_role", actor, AdminCheck(actor, family_id),
                                      family_id, NULL, {})
       ELSE IF MemberRows(family_id, member_id) = {}
       THEN /\ UNCHANGED family_members
            /\ resp' = FamilyResponse("update_member_role", actor, "not_found_404", family_id,
                                      member_id, {})
       ELSE IF role \notin Roles
       THEN /\ UNCHANGED family_members
            /\ resp' = FamilyResponse("update_member_role", actor,
                                      "invalid_role_400", family_id, member_id, {})
       ELSE /\ family_members' =
                  {IF m \in MemberRows(family_id, member_id)
                   THEN [m EXCEPT !.role = role] ELSE m : m \in family_members}
            /\ resp' = FamilyResponse("update_member_role", actor, "ok_200", family_id,
                                      member_id, {})

remove_member(actor, family_id, member_id) ==
    /\ UNCHANGED <<active_family_id, families, family_invites, now, budgets,
                   transactions, credit_sources, next_id, inflight>>
    /\ IF AdminCheck(actor, family_id) # "pass"
       THEN /\ UNCHANGED family_members
            /\ resp' = FamilyResponse("remove_member", actor, AdminCheck(actor, family_id),
                                      family_id, NULL, {})
       ELSE IF MemberRows(family_id, member_id) = {}
       THEN /\ UNCHANGED family_members
            /\ resp' = FamilyResponse("remove_member", actor, "not_found_404", family_id,
                                      member_id, {})
       ELSE /\ family_members' = family_members \ MemberRows(family_id, member_id)
            /\ resp' = FamilyResponse("remove_member", actor, "ok_200", family_id,
                                      member_id, {})

update_family(actor, family_id, name) ==
    /\ UNCHANGED <<active_family_id, family_members, family_invites, now, budgets,
                   transactions, credit_sources, next_id, inflight>>
    /\ IF AdminCheck(actor, family_id) # "pass"
       THEN /\ UNCHANGED families
            /\ resp' = FamilyResponse("update_family", actor, AdminCheck(actor, family_id),
                                      family_id, NULL, {})
       ELSE IF ~\E f \in families : f.id = family_id
       THEN /\ UNCHANGED families
            /\ resp' = FamilyResponse("update_family", actor, "not_found_404", family_id,
                                      NULL, {})
       ELSE /\ families' = {IF f.id = family_id THEN [f EXCEPT !.name = name] ELSE f :
                               f \in families}
            /\ resp' = FamilyResponse("update_family", actor, "ok_200", family_id,
                                      NULL, {})

\* The clock: half of an invite's 30 days pass.
Tick ==
    /\ now < 15 * MaxTicks
    /\ now' = now + 15
    /\ UNCHANGED <<active_family_id, families, family_members, family_invites,
                   budgets, transactions, credit_sources, next_id, inflight, resp>>

(***************************************************************************)
(* The initial state: an empty store, nobody has an active family.         *)
(***************************************************************************)
NumRequests == 2
Slots == 1..NumRequests

Idle == [pc |-> "idle"]

Init ==
    /\ active_family_id = [u \in Users |-> NULL]
    /\ families = {}
    /\ family_members = {}
    /\ family_invites = {}
    /\ now = 0
    /\ budgets = {}
    /\ transactions = {}
    /\ credit_sources = {}
    /\ next_id = [budget |-> 1, transaction |-> 1, credit_source |-> 1,
                  family |-> 1, member |-> 1, invite |-> 1]
    /\ inflight = [s \in Slots |-> Idle]
    /\ resp = NoResponse

(***************************************************************************)
(* Spec: the budget life cycle, one request at a time.                     *)
(***************************************************************************)
NoImport ==
    [name |-> "home", import_existing_data |-> FALSE, import_from_date |-> None,
     import_to_date |-> None, import_transactions |-> TRUE,
     import_budgets |-> TRUE, import_credit_sources |-> TRUE]

ImportAll == [NoImport EXCEPT !.import_existing_data = TRUE]

\* The periods requests carry: two that only touch the middle one, one that
\* spans all days, two disjoint ones, an empty one and a reversed one.
RequestPeriods ==
    {<<1, 2>>, <<2, 3>>, <<3, 4>>, <<1, MaxDate>>, <<1, 1>>, <<2, 1>>}

\* BudgetCreate bodies without a total and without allocations.
PlainBudgetCreates ==
    {[family_id |-> f, period_start |-> p[1], period_end |-> p[2],
      total_budget |-> None, is_active |-> a, category_allocations |-> <<>>] :
        f \in {NULL} \cup FamilyIds, p \in RequestPeriods, a \in BOOLEAN}

NoUpdate ==
    [period_start |-> None, period_end |-> None, total_budget |-> None,
     is_active |-> None, category_allocations |-> None]

\* BudgetUpdate bodies that set no field, one date or the flag.
PeriodBudgetUpdates ==
    {NoUpdate}
    \cup {[NoUpdate EXCEPT !.period_start = Some(d)] : d \in Dates}
    \cup {[NoUpdate EXCEPT !.period_end = Some(d)] : d \in Dates}
    \cup {[NoUpdate EXCEPT !.is_active = Some(a)] : a \in BOOLEAN}

BudgetIds == 1..MaxBudgets

Next ==
    \/ \E u \in Users : families = {} /\ create_family(u, NoImport)
    \/ \E u \in Users, f \in FamilyIds : set_active_family(u, f)
    \/ \E u \in Users, req \in PlainBudgetCreates : create_budget(u, req)
    \/ \E u \in Users, id \in BudgetIds, req \in PeriodBudgetUpdates :
          update_budget(u, id, req)
    \/ \E u \in Users, id \in BudgetIds : delete_budget(u, id)

Spec == Init /\ [][Next]_vars

(***************************************************************************)
(* SpecRace: create_budget requests that overlap in time.  Each request    *)
(* has its own session; the handler is suspended at every await, so other  *)
(* requests run between its overlap query and its commit.  Under the       *)
(* database's default isolation (read committed) the query sees what is    *)
(* committed, and nothing a request has written is seen before its commit. *)
(***************************************************************************)
\* The handler from its start to the queries' answers.
create_budget_begin(slot, actor, req) ==
    /\ inflight[slot].pc = "idle"
    /\ UNCHANGED db
    /\ LET family_id == EffectiveFamilyId(req.family_id, active_family_id[actor])
           verdict == IF ~BudgetCreateValid(req) THEN "validation_error_422"
                      ELSE CreateBudgetValidation(budgets, actor, family_id, req)
       IN  IF verdict # "pass"
           THEN /\ inflight' = [inflight EXCEPT ![slot] =
                        [pc |-> "done", actor |-> actor, family_id |-> family_id,
                         req |-> req, verdict |-> verdict, status |-> verdict,
                         budget_id |-> NULL]]
                /\ resp' = Fail("create_budget", actor, verdict)
           ELSE /\ inflight' = [inflight EXCEPT ![slot] =
                        [pc |-> "validated", actor |-> actor,
                         family_id |-> family_id, req |-> req, verdict |-> verdict]]
                /\ UNCHANGED resp

\* The handler from session.add to its response.
create_budget_commit(slot) ==
    /\ inflight[slot].pc = "validated"
    /\ UNCHANGED <<active_family_id, families, family_members, family_invites, now,
                   transactions,
                   credit_sources>>
    /\ CreateBudgetWrite(inflight[slot].actor, inflight[slot].family_id,
                         inflight[slot].req)
    /\ inflight' = [inflight EXCEPT ![slot] =
            [pc |-> "done", actor |-> @.actor, family_id |-> @.family_id,
             req |-> @.req, verdict |-> @.verdict, status |-> resp'.status,
             budget_id |-> resp'.id]]

\* Well-formed BudgetCreate bodies that leave the scope to the active family.
RaceBudgetCreates ==
    {req \in PlainBudgetCreates : req.family_id = NULL /\ BudgetCreateValid(req)}

NextRace ==
    \/ \E u \in Users : create_family(u, NoImport)
    \/ \E s \in Slots, u \in Users, req \in RaceBudgetCreates :
          create_budget_begin(s, u, req)
    \/ \E s \in Slots : create_budget_commit(s)

SpecRace == Init /\ [][NextRace]_vars

(***************************************************************************)
(* SpecStats: one budget, the transactions around it, and get_budget      *)
(* reading its statistics.  Amounts are those of the January example:     *)
(* a total of 5000.00, 2000.00 allocated to groceries (category 1),       *)
(* expenses of 1500.00 on groceries and 800.00 on dining (category 2).    *)
(***************************************************************************)
\* create_family importing the creator's transactions but not the budgets.
ImportTransactions == [ImportAll EXCEPT !.import_budgets = FALSE]

\* The period of the budget: days 2..3, so that day 1 and the days after 3
\* lie outside it.
StatsBudgetCreates ==
    {[family_id |-> NULL, period_start |-> 2, period_end |-> 3,
      total_budget |-> tb[1], is_active |-> TRUE,
      category_allocations |-> tb[2]] :
        tb \in {<<None, <<>>>>,
                <<Some(0), <<>>>>,
                <<Some(-200), <<>>>>,
                <<None, <<[category_id |-> 1, allocated_amount |-> 0]>>>>,
                <<Some(1000000),
                  <<[category_id |-> 1, allocated_amount |-> 400000]>>>>}}

\* Grocery expenses on every day, a dining expense and a grocery income
\* inside the period.
StatsTransactionCreates ==
    {[amount |-> 300000, transaction_type |-> "expense", category_id |-> 1,
      t_date |-> d] : d \in Dates}
    \cup {[amount |-> 160000, transaction_type |-> "expense", category_id |-> 2,
           t_date |-> 2],
          [amount |-> 300000, transaction_type |-> "income", category_id |-> 1,
           t_date |-> 3]}

NextStats ==
    \/ \E u \in Users : create_family(u, ImportTransactions)
    \/ \E u \in Users, req \in StatsBudgetCreates :
          budgets = {} /\ create_budget(u, req)
    \/ \E u \in Users, req \in StatsTransactionCreates : create_transaction(u, req)
    \/ \E u \in Users, id \in BudgetIds : get_budget(u, id)

SpecStats == Init /\ [][NextStats]_vars

(***************************************************************************)
(* SpecAlloc: create_budget with category allocations.  The amounts are    *)
(* 400.00, 600.00, 0.00 and 0.005 against totals of 1000.00 and 0.005.     *)
(***************************************************************************)
AllocationAmounts == {0, 1, 80000, 120000}

\* No allocation, one for category 1, or one for each of categories 1 and 2.
AllocationLists ==
    {<<>>}
    \cup {<<[category_id |-> 1, allocated_amount |-> a]>> : a \in AllocationAmounts}
    \cup {<<[category_id |-> 1, allocated_amount |-> a],
            [category_id |-> 2, allocated_amount |-> b]>> :
             a \in AllocationAmounts, b \in AllocationAmounts}

AllocBudgetCreates ==
    {[family_id |-> NULL, period_start |-> 1, period_end |-> 2,
      total_budget |-> tb, is_active |-> TRUE, category_allocations |-> al] :
        tb \in {None, Some(1), Some(200000)}, al \in AllocationLists}

NextAlloc ==
    \/ \E s \in Slots, u \in Users, req \in AllocBudgetCreates :
          create_budget_begin(s, u, req)
    \/ \E s \in Slots : create_budget_commit(s)

SpecAlloc == Init /\ [][NextAlloc]_vars

(***************************************************************************)
(* SpecScope: records created and listed before and after their owner      *)
(* gets an active family.                                                  *)
(***************************************************************************)
\* Budgets for days 1..2 that leave the scope to the active family.
ScopeBudgetCreates ==
    {[family_id |-> NULL, period_start |-> 1, period_end |-> 2,
      total_budget |-> None, is_active |-> a, category_allocations |-> <<>>] :
        a \in BOOLEAN}

\* An expense of 1.00 inside or outside those days.
ScopeTransactionCreates ==
    {[amount |-> 200, transaction_type |-> "expense", category_id |-> 1,
      t_date |-> d] : d \in {2, 3}}

CreditSourceIds == 1..MaxCreditSources

NextScope ==
    \/ \E u \in Users : families = {} /\ create_family(u, NoImport)
    \/ \E u \in Users, req \in ScopeBudgetCreates : create_budget(u, req)
    \/ \E u \in Users, req \in ScopeTransactionCreates : create_transaction(u, req)
    \/ \E u \in Users : create_credit_source(u)
    \/ \E u \in Users, id \in CreditSourceIds : delete_credit_source(u, id)
    \/ \E u \in Users : list_budgets(u, None)
    \/ \E u \in Users : list_transactions(u)
    \/ \E u \in Users : list_credit_sources(u)
    \/ \E u \in Users : list_active_credit_sources(u)

SpecScope == Init /\ [][NextScope]_vars

(***************************************************************************)
(* SpecIsolation: two users with personal records, each reading, changing  *)
(* and deleting by every id.                                               *)
(***************************************************************************)
TransactionIds == 1..MaxTransactions

\* One active budget for days 1..2.
IsolationBudgetCreates == {req \in ScopeBudgetCreates : req.is_active}

IsolationBudgetUpdates == {[NoUpdate EXCEPT !.is_active = Some(FALSE)]}

\* An expense on day 2.
IsolationTransactionCreates == {req \in ScopeTransactionCreates : req.t_date = 2}

IsolationTransactionUpdates == {[amount |-> None, t_date |-> Some(3)]}

IsolationCreditSourceUpdates == {[is_active |-> Some(FALSE)]}

NextIsolation ==
    \/ \E u \in Users, req \in IsolationBudgetCreates : create_budget(u, req)
    \/ \E u \in Users, req \in IsolationTransactionCreates :
          create_transaction(u, req)
    \/ \E u \in Users : create_credit_source(u)
    \/ \E u \in Users, id \in BudgetIds : get_budget(u, id)
    \/ \E u \in Users, id \in BudgetIds, req \in IsolationBudgetUpdates :
          update_budget(u, id, req)
    \/ \E u \in Users, id \in BudgetIds : delete_budget(u, id)
    \/ \E u \in Users : list_budgets(u, None)
    \/ \E u \in Users, id \in TransactionIds : get_transaction(u, id)
    \/ \E u \in Users, id \in TransactionIds, req \in IsolationTransactionUpdates :
          update_transaction(u, id, req)
    \/ \E u \in Users, id \in TransactionIds : delete_transaction(u, id)
    \/ \E u \in Users : list_transactions(u)
    \/ \E u \in Users, id \in CreditSourceIds : get_credit_source(u, id)
    \/ \E u \in Users, id \in CreditSourceIds, req \in IsolationCreditSourceUpdates :
          update_credit_source(u, id, req)
    \/ \E u \in Users, id \in CreditSourceIds : delete_credit_source(u, id)
    \/ \E u \in Users : list_credit_sources(u)
    \/ \E u \in Users : list_active_credit_sources(u)

SpecIsolation == Init /\ [][NextIsolation]_vars

(***************************************************************************)
(* SpecInvite: one family whose admin invites, the invited accept, the     *)
(* admin cancels, and time passes.                                         *)
(***************************************************************************)
\* Invitations to every way of writing the users' addresses.
InviteRequests == [invited_email : Emails, role : {"member"}]

\* The tokens issued, and one that was not.
Tokens == 1..(MaxInvites + 1)

InviteIds == 1..MaxInvites

NextInvite ==
    \/ \E u \in Users : families = {} /\ create_family(u, NoImport)
    \/ \E u \in Users, f \in FamilyIds, req \in InviteRequests :
          send_family_invite_endpoint(u, f, req)
    \/ \E u \in Users, token \in Tokens : confirm_accept_family_invite(u, token)
    \/ \E u \in Users, f \in FamilyIds, id \in InviteIds : cancel_invite(u, f, id)
    \/ Tick

SpecInvite == Init /\ [][NextInvite]_vars

(***************************************************************************)
(* SpecShare: a family of two members, each creating budgets and credit    *)
(* sources in it and reading what is there.                                *)
(***************************************************************************)
\* Invitations to the users' addresses as registered.
ShareInviteRequests == {[invited_email |-> EmailOf(u), role |-> "member"] : u \in Users}

NextShare ==
    \/ \E u \in Users : families = {} /\ create_family(u, NoImport)
    \/ \E u \in Users, f \in FamilyIds, req \in ShareInviteRequests :
          send_family_invite_endpoint(u, f, req)
    \/ \E u \in Users, token \in InviteIds : confirm_accept_family_invite(u, token)
    \/ \E u \in Users, req \in IsolationBudgetCreates : create_budget(u, req)
    \/ \E u \in Users : create_credit_source(u)
    \/ \E u \in Users : list_budgets(u, None)
    \/ \E u \in Users, id \in BudgetIds : get_budget(u, id)
    \/ \E u \in Users : list_credit_sources(u)
    \/ \E u \in Users, id \in CreditSourceIds : get_credit_source(u, id)

SpecShare == Init /\ [][NextShare]_vars

(***************************************************************************)
(* SpecRoles: one family; members join with the role their invite          *)
(* proposes, admins change roles, remove members, rename the family and    *)
(* manage the invites.                                                     *)
(***************************************************************************)
\* Invitations to the users' addresses as registered, with a role of the
\* set or another string.
RoleInviteRequests ==
    [invited_email : {EmailOf(u) : u \in Users}, role : {"admin", "owner"}]

RoleUpdates == {"member", "owner"}

\* The row of the creator and one per invite.
MemberIds == 1..(MaxInvites + 1)

FamilyNames == {"renamed"}

NextRoles ==
    \/ \E u \in Users : families = {} /\ create_family(u, NoImport)
    \/ \E u \in Users, f \in FamilyIds, req \in RoleInviteRequests :
          send_family_invite_endpoint(u, f, req)
    \/ \E u \in Users, token \in InviteIds : confirm_accept_family_invite(u, token)
    \/ \E u \in Users, f \in FamilyIds : list_family_invites(u, f)
    \/ \E u \in Users, f \in FamilyIds, id \in InviteIds : cancel_invite(u, f, id)
    \/ \E u \in Users, f \in FamilyIds, id \in MemberIds, role \in RoleUpdates :
          update_member_role(u, f, id, role)
    \/ \E u \in Users, f \in FamilyIds, id \in MemberIds : remove_member(u, f, id)
    \/ \E u \in Users, f \in FamilyIds, name \in FamilyNames : update_family(u, f, name)

SpecRoles == Init /\ [][NextRoles]_vars

(***************************************************************************)
(* SpecImport: users with records create families, with and without       *)
(* importing what they have.                                               *)
(***************************************************************************)
\* FamilyCreate bodies, told apart by the family's name: no import, import
\* of every kind, import of all but the budgets.
ImportConfigs ==
    {NoImport,
     [ImportAll EXCEPT !.name = "all"],
     [ImportAll EXCEPT !.name = "all but budgets", !.import_budgets = FALSE]}

NextImport ==
    \/ \E u \in Users, cfg \in ImportConfigs : create_family(u, cfg)
    \/ \E u \in Users, req \in IsolationBudgetCreates : create_budget(u, req)
    \/ \E u \in Users, req \in IsolationTransactionCreates :
          create_transaction(u, req)
    \/ \E u \in Users : create_credit_source(u)

SpecImport == Init /\ [][NextImport]_vars

(***************************************************************************)
(* SpecRange: users with transactions on days 2 and 3 create families that *)
(* import a range of dates.                                                *)
(***************************************************************************)
\* FamilyCreate bodies that import the transactions only, told apart by the
\* family's name: from day 3, up to day 2, days 2..3, and without dates.
RangeConfigs ==
    {[ImportTransactions EXCEPT !.name = "from 3", !.import_from_date = Some(3)],
     [ImportTransactions EXCEPT !.name = "to 2", !.import_to_date = Some(2)],
     [ImportTransactions EXCEPT !.name = "2 to 3", !.import_from_date = Some(2),
                                !.import_to_date = Some(3)],
     [ImportTransactions EXCEPT !.name = "all"]}

NextRange ==
    \/ \E u \in Users, cfg \in RangeConfigs : create_family(u, cfg)
    \/ \E u \in Users, req \in ScopeTransactionCreates : create_transaction(u, req)
    \/ \E u \in Users : list_transactions(u)

SpecRange == Init /\ [][NextRange]_vars

(***************************************************************************)
(* SpecRealloc: budgets with a total of 1000.00 and allocations, then      *)
(* updates that replace the allocations or the total.                      *)
(***************************************************************************)
\* A total of 1000.00 with 400.00 or 600.00 on category 1, or no allocation.
ReallocBudgetCreates ==
    {[family_id |-> NULL, period_start |-> 1, period_end |-> 2,
      total_budget |-> Some(200000), is_active |-> TRUE,
      category_allocations |-> al] :
        al \in {<<>>} \cup {<<[category_id |-> 1, allocated_amount |-> a]>> :
                               a \in {80000, 120000}}}

\* BudgetUpdate bodies: a new list of allocations (up to 1200.00 in all), or
\* a new total of 500.00 or 1000.00, or the total unset.
ReallocBudgetUpdates ==
    {[NoUpdate EXCEPT !.category_allocations = Some(al)] :
        al \in {l \in AllocationLists :
                   \A i \in DOMAIN l : l[i].allocated_amount \in {80000, 120000}}}
    \cup {[NoUpdate EXCEPT !.total_budget = Some(tb)] :
             tb \in {None, Some(100000), Some(200000)}}

NextRealloc ==
    \/ \E u \in Users, req \in ReallocBudgetCreates : create_budget(u, req)
    \/ \E u \in Users, id \in BudgetIds, req \in ReallocBudgetUpdates :
          update_budget(u, id, req)
    \/ \E u \in Users, id \in BudgetIds : delete_budget(u, id)

SpecRealloc == Init /\ [][NextRealloc]_vars

(***************************************************************************)
(* SpecPeriod: personal budgets created and updated with every period,     *)
(* empty and reversed ones included.                                       *)
(***************************************************************************)
PeriodBudgetCreates == {req \in PlainBudgetCreates : req.family_id = NULL}

NextPeriod ==
    \/ \E u \in Users, req \in PeriodBudgetCreates : create_budget(u, req)
    \/ \E u \in Users, id \in BudgetIds, req \in PeriodBudgetUpdates :
          update_budget(u, id, req)

SpecPeriod == Init /\ [][NextPeriod]_vars

(***************************************************************************)
(* SpecActive: a family is created, joined, left and deleted while its     *)
(* members choose their active family.                                     *)
(***************************************************************************)
NextActive ==
    \/ \E u \in Users : families = {} /\ create_family(u, NoImport)
    \/ \E u \in Users, f \in FamilyIds : set_active_family(u, f)
    \/ \E u \in Users, f \in FamilyIds, req \in ShareInviteRequests :
          send_family_invite_endpoint(u, f, req)
    \/ \E u \in Users, token \in InviteIds : confirm_accept_family_invite(u, token)
    \/ \E u \in Users, f \in FamilyIds, id \in MemberIds : remove_member(u, f, id)
    \/ \E u \in Users, f \in FamilyIds : delete_family(u, f)

SpecActive == Init /\ [][NextActive]_vars

(***************************************************************************)
(* SpecCategories: budgets for days 2..3 with allocations to one category, *)
(* to two, or twice to the same one, and transactions of both categories.  *)
(***************************************************************************)
\* Allocations of 400.00 and 600.00: to category 1, to categories 1 and 2,
\* and twice to category 1.
CategoryLists ==
    {<<[category_id |-> 1, allocated_amount |-> 80000]>>,
     <<[category_id |-> 1, allocated_amount |-> 80000],
       [category_id |-> 2, allocated_amount |-> 120000]>>,
     <<[category_id |-> 1, allocated_amount |-> 80000],
       [category_id |-> 1, allocated_amount |-> 120000]>>}

CategoryBudgetCreates ==
    {[family_id |-> NULL, period_start |-> 2, period_end |-> 3,
      total_budget |-> None, is_active |-> TRUE, category_allocations |-> al] :
        al \in CategoryLists}

CategoryBudgetUpdates ==
    {[NoUpdate EXCEPT !.category_allocations = Some(al)] : al \in CategoryLists}

\* Expenses of 1500.00 on category 1 and 800.00 on category 2 and an income
\* of 1500.00 on category 1, inside and outside the period.
CategoryTransactionCreates ==
    {[amount |-> a[1], transaction_type |-> a[2], category_id |-> a[3],
      t_date |-> d] :
        a \in {<<300000, "expense", 1>>, <<160000, "expense", 2>>,
               <<300000, "income", 1>>},
        d \in {1, 2}}

NextCategories ==
    \/ \E u \in Users, req \in CategoryBudgetCreates : create_budget(u, req)
    \/ \E u \in Users, id \in BudgetIds, req \in CategoryBudgetUpdates :
          update_budget(u, id, req)
    \/ \E u \in Users, req \in CategoryTransactionCreates :
          create_transaction(u, req)
    \/ \E u \in Users, id \in BudgetIds : get_budget(u, id)

SpecCategories == Init /\ [][NextCategories]_vars

(***************************************************************************)
(*                              PROPERTIES                                 *)
(***************************************************************************)
\* The reference predicate of the specification: two closed intervals meet.
Intersects(existing_start, existing_end, new_start, new_end) ==
    ~(existing_end < new_start \/ existing_start > new_end)

\* An existing active budget of the candidate's scope meets its period.
Conflict(actor, family_id, req) ==
    \E b \in budgets :
        /\ b.is_active
        /\ b.user_id = actor
        /\ b.family_id = family_id
        /\ Intersects(b.period_start, b.period_end, req.period_start, req.period_end)

SameScope(b1, b2) == b1.user_id = b2.user_id /\ b1.family_id = b2.family_id

\* C1: in every reachable state and for every well-formed request,
\* create_budget answers with the overlap rejection exactly when an active
\* budget of the same user and the same family scope (NULL being the
\* personal scope) meets the candidate's period as closed intervals, and
\* passes the request on to the insert otherwise; on all periods with
\* start < end the code's three cases agree with the reference predicate.
C1_OverlapRejection ==
    /\ \A es, ee, ns, ne \in Dates :
          (es < ee /\ ns < ne) =>
              (OverlapCondition([period_start |-> es, period_end |-> ee], ns, ne)
                  <=> Intersects(es, ee, ns, ne))
    /\ \A u \in Users, req \in PlainBudgetCreates :
          BudgetCreateValid(req) =>
              LET fid == EffectiveFamilyId(req.family_id, active_family_id[u])
                  verdict == CreateBudgetValidation(budgets, u, fid, req)
              IN  /\ verdict \in {"overlap_400", "multiple_results_500"}
                        <=> Conflict(u, fid, req)
                  /\ ~Conflict(u, fid, req) => verdict = "pass"

\* C1 witness: a create_budget was just rejected for overlap while the store
\* holds two active budgets of one user with the same period in different
\* family scopes (the second one was accepted).
C1_Witness ==
    /\ resp.op = "create_budget"
    /\ resp.status = "overlap_400"
    /\ \E b1, b2 \in budgets :
          /\ b1.id < b2.id
          /\ b1.user_id = b2.user_id
          /\ b1.family_id # b2.family_id
          /\ b1.is_active /\ b2.is_active
          /\ b1.period_start = b2.period_start
          /\ b1.period_end = b2.period_end

\* C2: no two active budgets of one scope have intersecting periods.
C2_NoActiveOverlap ==
    \A b1, b2 \in budgets :
        (b1.id # b2.id /\ b1.is_active /\ b2.is_active /\ SameScope(b1, b2)) =>
            ~Intersects(b1.period_start, b1.period_end,
                        b2.period_start, b2.period_end)

\* The budget a finished request wrote.
Written(r) ==
    {b \in budgets :
        /\ b.id = r.budget_id
        /\ b.user_id = r.actor
        /\ b.family_id = r.family_id
        /\ b.period_start = r.req.period_start
        /\ b.period_end = r.req.period_end
        /\ b.is_active = r.req.is_active}

\* C3: nothing serializes the overlap check with the write: every request
\* that passed the overlap query is, once finished, answered 201 and has its
\* budget stored, whatever was committed in between.
C3_NoSerializationGuard ==
    \A s \in Slots :
        (inflight[s].pc = "done" /\ inflight[s].verdict = "pass")
            => /\ inflight[s].status = "created_201"
               /\ Written(inflight[s]) # {}

\* C3 witness: two requests of one user for one scope, both passed and both
\* committed, left two active budgets with intersecting periods.
C3_Witness ==
    \E s1, s2 \in Slots :
        /\ s1 # s2
        /\ inflight[s1].pc = "done" /\ inflight[s2].pc = "done"
        /\ inflight[s1].verdict = "pass" /\ inflight[s2].verdict = "pass"
        /\ inflight[s1].actor = inflight[s2].actor
        /\ inflight[s1].family_id = inflight[s2].family_id
        /\ \E b1 \in Written(inflight[s1]), b2 \in Written(inflight[s2]) :
              /\ b1.id # b2.id
              /\ b1.is_active /\ b2.is_active
              /\ Intersects(b1.period_start, b1.period_end,
                            b2.period_start, b2.period_end)

(***************************************************************************)
(* Budget statistics, read off the response of get_budget.                 *)
(***************************************************************************)
StatsRead == resp.op = "get_budget" /\ resp.status = "ok_200"

\* The budget the response is about.
ReadBudget == CHOOSE b \in budgets : b.id = resp.id

\* The expenses a budget counts, as the definition of total_spent words it.
MatchingExpenses(b) ==
    {t \in transactions :
        /\ t.transaction_type = "expense"
        /\ t.user_id = b.user_id
        /\ b.period_start <= t.t_date /\ t.t_date <= b.period_end
        /\ (b.family_id = NULL \/ t.family_id = b.family_id)}

\* The sum of the amounts of the rows of T, row by row in id order.
RECURSIVE AmountUpTo(_, _)
AmountUpTo(T, n) ==
    IF n = 0 THEN 0
    ELSE AmountUpTo(T, n - 1)
         + (IF \E t \in T : t.id = n
            THEN (CHOOSE t \in T : t.id = n).amount ELSE 0)

ExactSum(T) == AmountUpTo(T, next_id.transaction)

\* p is the percentage 100 * a / b.
IsPercentOf(p, a, b) ==
    /\ IsSet(p)
    /\ Val(p).den > 0
    /\ Val(p).num * b = 100 * a * Val(p).den

\* C4: total_spent is the exact sum of the amounts of the owner's expenses
\* dated inside the period, both ends included, of the budget's family only
\* when the budget has one; it is a number (0 when nothing matches).
C4_TotalSpent ==
    StatsRead =>
        /\ resp.stats.total_spent \in Nat
        /\ resp.stats.total_spent = ExactSum(MatchingExpenses(ReadBudget))
        /\ MatchingExpenses(ReadBudget) = {} => resp.stats.total_spent = 0

\* C4 witness: a personal budget read with an expense on its first day and
\* one on its last day, of different family_id, both counted.
C4_Witness ==
    /\ StatsRead
    /\ ReadBudget.family_id = NULL
    /\ \E t1, t2 \in MatchingExpenses(ReadBudget) :
          /\ t1.t_date = ReadBudget.period_start
          /\ t2.t_date = ReadBudget.period_end
          /\ t1.family_id # t2.family_id
          /\ resp.stats.total_spent = t1.amount + t2.amount

\* C5: total_remaining is total_budget - total_spent whenever total_budget is
\* set, 0.00 included, and null only when it is unset; the utilization is
\* 100 * total_spent / total_budget when total_budget is set and > 0 and null
\* otherwise; total_spent >= 0.
C5_RemainingAndUtilization ==
    StatsRead =>
        LET b == ReadBudget
            st == resp.stats
        IN  /\ IsSet(b.total_budget) =>
                  st.total_remaining = Some(Val(b.total_budget) - st.total_spent)
            /\ ~IsSet(b.total_budget) => st.total_remaining = None
            /\ IF IsSet(b.total_budget) /\ Val(b.total_budget) > 0
               THEN IsPercentOf(st.overall_utilization_percent, st.total_spent,
                                Val(b.total_budget))
               ELSE st.overall_utilization_percent = None
            /\ st.total_spent >= 0

\* The January example: total 5000.00, 2000.00 for groceries, and exactly
\* the two expenses 1500.00 groceries and 800.00 dining inside the period.
JanuaryExample(b) ==
    /\ b.total_budget = Some(500000)
    /\ {<<bc.category_id, bc.allocated_amount>> : bc \in b.budget_categories}
          = {<<1, 200000>>}
    /\ {<<t.category_id, t.amount>> : t \in MatchingExpenses(b)}
          = {<<1, 150000>>, <<2, 80000>>}
    /\ Cardinality(MatchingExpenses(b)) = 2

\* C6: every allocation of a budget gets one entry: spent_amount is the sum
\* of total_spent narrowed to the allocation's category, remaining_amount is
\* allocated_amount - spent_amount, utilization_percent is
\* 100 * spent_amount / allocated_amount when allocated_amount > 0 and null
\* when it is 0; the January example yields 2300.00 / 2700.00 / 46.0 and,
\* for groceries, 1500.00 / 500.00 / 75.0.
C6_CategorySpending ==
    StatsRead =>
        LET b == ReadBudget
            st == resp.stats
        IN  /\ {c.category_id : c \in st.categories}
                  = {bc.category_id : bc \in b.budget_categories}
            /\ Cardinality(st.categories) = Cardinality(b.budget_categories)
            /\ \A c \in st.categories :
                  \E bc \in b.budget_categories :
                      /\ bc.category_id = c.category_id
                      /\ c.spent_amount =
                            ExactSum({t \in MatchingExpenses(b) :
                                         t.category_id = bc.category_id})
                      /\ c.remaining_amount = bc.allocated_amount - c.spent_amount
                      /\ IF bc.allocated_amount > 0
                         THEN IsPercentOf(c.utilization_percent, c.spent_amount,
                                          bc.allocated_amount)
                         ELSE c.utilization_percent = None
            /\ JanuaryExample(b) =>
                  /\ st.total_spent = 230000
                  /\ st.total_remaining = Some(270000)
                  /\ st.overall_utilization_percent = Some([num |-> 46, den |-> 1])
                  /\ \A c \in st.categories :
                        /\ c.spent_amount = 150000
                        /\ c.remaining_amount = 50000
                        /\ c.utilization_percent = Some([num |-> 75, den |-> 1])

\* C6 witness: the January example read.
C6_Witness ==
    /\ StatsRead
    /\ JanuaryExample(ReadBudget)
    /\ resp.stats.categories # {}

AllocationSum(req) ==
    SumSeq(AllocatedAmounts(RoundAllocations(req.category_allocations)))

\* The finished requests the allocation check applies to.
SumChecked ==
    {s \in Slots :
        /\ inflight[s].pc = "done"
        /\ IsSet(inflight[s].req.total_budget)
        /\ inflight[s].req.category_allocations # <<>>}

\* C8: create_budget with total_budget set and a non-empty list of
\* allocations answers a validation error and stores nothing when the
\* allocated amounts sum to more than total_budget, and is not answered a
\* validation error when they sum to total_budget or less.
C8_AllocationSum ==
    /\ \A s \in SumChecked :
          IF AllocationSum(inflight[s].req)
                > Val(Round2Opt(inflight[s].req.total_budget))
          THEN /\ inflight[s].status = "validation_error_422"
               /\ inflight[s].budget_id = NULL
          ELSE inflight[s].status # "validation_error_422"
    /\ \A b \in budgets :
          \E s \in Slots :
              /\ inflight[s].pc = "done"
              /\ inflight[s].status = "created_201"
              /\ inflight[s].budget_id = b.id
              /\ b.budget_categories =
                    Range(RoundAllocations(inflight[s].req.category_allocations))
    /\ \A b \in budgets :
          IsSet(b.total_budget) =>
              SumAmounts({[id |-> bc.category_id, amount |-> bc.allocated_amount] :
                             bc \in b.budget_categories}) <= Val(b.total_budget)

\* C8 witness: a request answered with the validation error while a budget
\* whose allocations sum to exactly its total of 1000.00 is stored.
C8_Witness ==
    /\ \E s \in SumChecked :
          /\ inflight[s].status = "validation_error_422"
          /\ AllocationSum(inflight[s].req) = 120000
          /\ inflight[s].req.total_budget = Some(200000)
    /\ \E b \in budgets :
          /\ b.total_budget = Some(100000)
          /\ Cardinality(b.budget_categories) = 2
          /\ \A bc \in b.budget_categories :
                bc.allocated_amount = IF bc.category_id = 1 THEN 60000 ELSE 40000

(***************************************************************************)
(* Scopes.                                                                 *)
(***************************************************************************)
\* The ids of the caller's rows of a table in the caller's current scope:
\* the active family's, or the personal ones (family_id null) without one.
InScope(rows, actor) ==
    {r.id : r \in {x \in rows : /\ x.user_id = actor
                                /\ x.family_id = active_family_id[actor]}}

\* C9: each list operation returns exactly the caller's records of the
\* caller's current scope (list_active_credit_sources: the active ones).
C9_ListsScoped ==
    /\ resp.op = "list_budgets" => resp.ids = InScope(budgets, resp.actor)
    /\ resp.op = "list_transactions" => resp.ids = InScope(transactions, resp.actor)
    /\ resp.op = "list_credit_sources" =>
          resp.ids = InScope(credit_sources, resp.actor)
    /\ resp.op = "list_active_credit_sources" =>
          resp.ids = InScope({cs \in credit_sources : cs.is_active}, resp.actor)

\* The record a create operation has just stored.
Created(rows) == CHOOSE r \in rows : r.id = resp.id

\* C10: each create operation stores its record with the caller's user_id
\* and, no family_id being supplied, the caller's active_family_id; a
\* transaction created while a family is active is counted by the caller's
\* budgets of that family whose period holds its date.
C10_CreatesStamped ==
    /\ (resp.op = "create_budget" /\ resp.status = "created_201") =>
          /\ Created(budgets).user_id = resp.actor
          /\ Created(budgets).family_id = active_family_id[resp.actor]
    /\ (resp.op = "create_credit_source" /\ resp.status = "created_201") =>
          /\ Created(credit_sources).user_id = resp.actor
          /\ Created(credit_sources).family_id = active_family_id[resp.actor]
    /\ (resp.op = "create_transaction" /\ resp.status = "created_201") =>
          LET t == Created(transactions)
          IN  /\ t.user_id = resp.actor
              /\ t.family_id = active_family_id[resp.actor]
              /\ \A b \in budgets :
                    (/\ b.user_id = resp.actor
                     /\ b.family_id = active_family_id[resp.actor]
                     /\ b.period_start <= t.t_date /\ t.t_date <= b.period_end)
                        => calculate_budget_spending(b, transactions).total_spent
                              >= t.amount

(***************************************************************************)
(* Isolation of personal records.                                          *)
(***************************************************************************)
BudgetReads == {"get_budget", "list_budgets", "update_budget", "delete_budget"}
TransactionReads ==
    {"get_transaction", "list_transactions", "update_transaction",
     "delete_transaction"}
CreditSourceReads ==
    {"get_credit_source", "list_credit_sources", "list_active_credit_sources",
     "update_credit_source", "delete_credit_source"}

\* The personal records of the users other than b.
PersonalOfOthers(rows, b) ==
    {r \in rows : r.user_id # b /\ r.family_id = NULL}

\* The response r neither lists a row of rows nor answers a request for
\* one with anything but not-found.
Hidden(rows, r) ==
    \A x \in rows :
        /\ x.id \notin r.ids
        /\ r.id = x.id => r.status = "not_found_404"

\* C11: a get, list, update or delete on budgets, transactions or credit
\* sources never returns or changes a personal record (family_id null) of a
\* user other than the caller; asked for by id, such a record is answered
\* not-found, never forbidden, and stays as it is.
C11_PersonalRecordsIsolated ==
    [][resp'.op \in BudgetReads \cup TransactionReads \cup CreditSourceReads =>
          /\ PersonalOfOthers(budgets, resp'.actor) \subseteq budgets'
          /\ PersonalOfOthers(transactions, resp'.actor) \subseteq transactions'
          /\ PersonalOfOthers(credit_sources, resp'.actor) \subseteq credit_sources'
          /\ resp'.status # "forbidden_403"
          /\ resp'.op \in BudgetReads =>
                Hidden(PersonalOfOthers(budgets, resp'.actor), resp')
          /\ resp'.op \in TransactionReads =>
                Hidden(PersonalOfOthers(transactions, resp'.actor), resp')
          /\ resp'.op \in CreditSourceReads =>
                Hidden(PersonalOfOthers(credit_sources, resp'.actor), resp')]_vars

\* C11 witness: a user asked to delete another user's personal transaction
\* and was answered not-found; the transaction is still stored.
C11_Witness ==
    /\ resp.op = "delete_transaction"
    /\ resp.status = "not_found_404"
    /\ \E t \in PersonalOfOthers(transactions, resp.actor) : t.id = resp.id

(***************************************************************************)
(* Invites.                                                                *)
(***************************************************************************)
\* The step is a confirm_accept_family_invite request (the clock leaves the
\* last response as it is).
ConfirmStep == resp'.op = "confirm_accept_family_invite" /\ now' = now

\* C13: an accepted invite is never changed or removed again, and a later
\* confirm_accept_family_invite with its token, by any user, is answered
\* "already accepted" and adds no member row.
C13_AcceptedIsTerminal ==
    [][\A i \in family_invites : i.accepted =>
          /\ i \in family_invites'
          /\ ConfirmStep /\ resp'.id = i.token =>
                /\ resp'.status = "already_accepted_400"
                /\ family_members' = family_members]_vars

\* The confirm step leaves invites, members and the caller's active family
\* as they were.
ConfirmChangedNothing ==
    /\ family_invites' = family_invites
    /\ family_members' = family_members
    /\ active_family_id'[resp'.actor] = active_family_id[resp'.actor]

\* The invite a token names (tokens are unique).
InviteOf(token) == {i \in family_invites : i.token = token}

EmailMatches(u, i) == Lower(EmailOf(u)) = Lower(i.invited_email)

\* C14: confirm_accept_family_invite fails and changes nothing when the
\* token names no invite (not found), when now is past expires_at (expired,
\* or already accepted if it was), and when the caller's address differs
\* from invited_email ignoring case (forbidden, unless an earlier check
\* answered); it succeeds only for the invited address and up to expires_at.
C14_FailedAcceptChangesNothing ==
    [][ConfirmStep =>
          /\ InviteOf(resp'.id) = {} =>
                resp'.status = "not_found_404" /\ ConfirmChangedNothing
          /\ \A i \in InviteOf(resp'.id) :
                /\ now > i.expires_at =>
                      /\ resp'.status =
                            IF i.accepted THEN "already_accepted_400"
                            ELSE "expired_400"
                      /\ ConfirmChangedNothing
                /\ ~EmailMatches(resp'.actor, i) =>
                      /\ resp'.status =
                            IF i.accepted THEN "already_accepted_400"
                            ELSE IF now > i.expires_at THEN "expired_400"
                            ELSE "forbidden_403"
                      /\ ConfirmChangedNothing
          /\ resp'.status = "ok_200" =>
                \E i \in InviteOf(resp'.id) :
                    EmailMatches(resp'.actor, i) /\ now <= i.expires_at]_vars

\* C14 witness: a confirm of an unaccepted invite after its expiry was
\* answered "expired".
C14_Witness ==
    /\ resp.op = "confirm_accept_family_invite"
    /\ resp.status = "expired_400"
    /\ \E i \in InviteOf(resp.id) : ~i.accepted /\ now > i.expires_at

\* The invites a step marks accepted, the member rows it adds.
NewlyAccepted ==
    {i \in family_invites' :
        i.accepted /\ \E j \in family_invites : j.id = i.id /\ ~j.accepted}

NewMembers == family_members' \ family_members

\* C15: a successful confirm_accept_family_invite adds the member row
\* (invite.family_id, caller, invite.role), marks the invite accepted by the
\* caller at the current time and makes the family the caller's active one,
\* all in the one step; no other step, and no failed confirm, marks an
\* invite accepted or adds a member of an existing family.
C15_AcceptIsAtomic ==
    [][IF ConfirmStep /\ resp'.status = "ok_200"
       THEN \E i \in InviteOf(resp'.id) :
               /\ ~i.accepted
               /\ \E m \in NewMembers :
                     /\ NewMembers = {m}
                     /\ m.family_id = i.family_id
                     /\ m.user_id = resp'.actor
                     /\ m.role = i.role
               /\ family_invites' = (family_invites \ {i}) \cup
                     {[i EXCEPT !.accepted = TRUE,
                                !.accepted_by_user_id = resp'.actor,
                                !.accepted_at = Some(now)]}
               /\ active_family_id' =
                     [active_family_id EXCEPT ![resp'.actor] = i.family_id]
       ELSE /\ NewlyAccepted = {}
            /\ \A m \in NewMembers : m.family_id \notin {f.id : f \in families}
            /\ ConfirmStep => active_family_id' = active_family_id]_vars

\* C15 witness: user 2 accepted an invite: the member row, the accepted
\* invite and the active family are there.
C15_Witness ==
    /\ resp.op = "confirm_accept_family_invite"
    /\ resp.status = "ok_200"
    /\ \E i \in InviteOf(resp.id) :
          /\ i.accepted /\ i.accepted_by_user_id = resp.actor
          /\ active_family_id[resp.actor] = i.family_id
          /\ \E m \in family_members :
                m.user_id = resp.actor /\ m.family_id = i.family_id

\* An invite that can still be accepted.
Pending(i) == ~i.accepted /\ now <= i.expires_at

\* C16: there is at most one unaccepted, unexpired invite per
\* (family_id, invited_email): an invitation to an address that has one
\* already is rejected and creates none.
C16_OnePendingInvite ==
    \A i, j \in family_invites :
        /\ Pending(i) /\ Pending(j)
        /\ i.family_id = j.family_id
        /\ i.invited_email = j.invited_email
        => i = j

\* The address is that of the user, however it is written.
BelongsTo(email, u) == Lower(email) = Lower(EmailOf(u))

\* C19: an invitation to the address of a user who is a member of the
\* family is rejected and creates no invite.
C19_MembersNotInvited ==
    [][/\ resp'.op = "send_family_invite_endpoint"
       /\ now' = now
       /\ resp'.status = "ok_200"
       => \A i \in family_invites' \ family_invites :
              ~\E m \in family_members :
                  m.family_id = i.family_id /\ BelongsTo(i.invited_email, m.user_id)]_vars

(***************************************************************************)
(* Sharing within a family.                                                *)
(***************************************************************************)
\* The rows of the family u is a member of and has as active family
\* (after the step).
SharedWith(rows, u) ==
    {r \in rows :
        /\ r.family_id # NULL
        /\ active_family_id'[u] = r.family_id
        /\ \E m \in family_members' :
              m.family_id = r.family_id /\ m.user_id = u}

\* C12: a member of family F who has F as active family finds every budget
\* and credit source with family_id F in the list, and gets it by id,
\* whichever member created it.
C12_FamilyRecordsShared ==
    [][/\ resp'.op = "list_budgets" =>
             \A b \in SharedWith(budgets', resp'.actor) : b.id \in resp'.ids
       /\ resp'.op = "list_credit_sources" =>
             \A c \in SharedWith(credit_sources', resp'.actor) : c.id \in resp'.ids
       /\ resp'.op = "get_budget" =>
             \A b \in SharedWith(budgets', resp'.actor) :
                 b.id = resp'.id => resp'.status = "ok_200"
       /\ resp'.op = "get_credit_source" =>
             \A c \in SharedWith(credit_sources', resp'.actor) :
                 c.id = resp'.id => resp'.status = "ok_200"]_vars

(***************************************************************************)
(* Roles.                                                                  *)
(***************************************************************************)
AdminGated ==
    {"send_family_invite_endpoint", "list_family_invites", "cancel_invite",
     "update_member_role", "remove_member", "update_family"}

\* C17: an admin-gated request (send invite, list invites, cancel invite,
\* update member role, remove member, update family) by a user without an
\* admin row in the family of the request is answered 403 and leaves
\* families, members and invites as they were.
C17_AdminOnly ==
    [][/\ resp'.op \in AdminGated
       /\ now' = now
       /\ ~\E m \in family_members :
             /\ m.family_id = resp'.family_id
             /\ m.user_id = resp'.actor
             /\ m.role = "admin"
       => /\ resp'.status = "forbidden_403"
          /\ UNCHANGED <<families, family_members, family_invites>>]_vars

\* C17 witness: a member of the family who is not (or no longer) an admin
\* asked to remove a member and was answered 403.
C17_Witness ==
    /\ resp.op = "remove_member"
    /\ resp.status = "forbidden_403"
    /\ \E m \in family_members :
          /\ m.family_id = resp.family_id
          /\ m.user_id = resp.actor
          /\ m.role # "admin"
    /\ \E m \in family_members : m.family_id = resp.family_id /\ m.id = 1

\* C18: every member row, and every invite's proposed role, has a role of
\* {admin, member, viewer}.
C18_RolesValid ==
    /\ \A m \in family_members : m.role \in Roles
    /\ \A i \in family_invites : i.role \in Roles

(***************************************************************************)
(* Import on create_family.                                                *)
(***************************************************************************)
\* The body of the create_family request the step answered.
CreatedWith ==
    CHOOSE cfg \in ImportConfigs :
        \E f \in families' : f.id = resp'.id /\ f.name = cfg.name

\* rows with the creator's personal ones re-stamped, if the kind is enabled.
PersonalRestamped(rows, enabled) ==
    {IF enabled /\ r.user_id = resp'.actor /\ r.family_id = NULL
     THEN [r EXCEPT !.family_id = resp'.id] ELSE r : r \in rows}

\* C20: create_family with import_existing_data gives the new family_id to
\* exactly the creator's personal records (family_id null) of the enabled
\* kinds; the creator's records of another family and the records of other
\* users stay as they are.
C20_ImportsPersonalOnly ==
    [][resp'.op = "create_family" /\ resp'.status = "ok_200" =>
          LET on == CreatedWith.import_existing_data
          IN  /\ budgets' =
                    PersonalRestamped(budgets, on /\ CreatedWith.import_budgets)
              /\ transactions' =
                    PersonalRestamped(transactions,
                                      on /\ CreatedWith.import_transactions)
              /\ credit_sources' =
                    PersonalRestamped(credit_sources,
                                      on /\ CreatedWith.import_credit_sources)]_vars

(***************************************************************************)
(* Import of a range of dates.                                             *)
(***************************************************************************)
\* The body of the create_family request the step answered.
RangeOf ==
    CHOOSE cfg \in RangeConfigs :
        \E f \in families' : f.id = resp'.id /\ f.name = cfg.name

\* from <= d <= to, a missing bound being open.
InRange(d, cfg) ==
    /\ IsSet(cfg.import_from_date) => Val(cfg.import_from_date) <= d
    /\ IsSet(cfg.import_to_date) => d <= Val(cfg.import_to_date)

\* C21: create_family with import_existing_data and import_from_date and/or
\* import_to_date succeeds and gives the new family_id to the creator's
\* transactions dated within the range, and to no other transaction.
C21_ImportDateRange ==
    [][resp'.op = "create_family" =>
          /\ resp'.status = "ok_200"
          /\ transactions' =
                {IF t.user_id = resp'.actor /\ InRange(t.t_date, RangeOf)
                 THEN [t EXCEPT !.family_id = resp'.id] ELSE t :
                    t \in transactions}]_vars

(***************************************************************************)
(* Overlap rejection: several conflicts, inactive candidates.              *)
(***************************************************************************)
\* What create_budget answers to a well-formed request before it writes.
CreateVerdict(u, req) ==
    CreateBudgetValidation(budgets, u,
                           EffectiveFamilyId(req.family_id, active_family_id[u]),
                           req)

\* C22: a create_budget whose period meets one or more active budgets of
\* its scope, two or more included, is answered with the validation error
\* that names a conflicting budget (400).
C22_ConflictIsValidationError ==
    \A u \in Users, req \in PlainBudgetCreates :
        /\ BudgetCreateValid(req)
        /\ Conflict(u, EffectiveFamilyId(req.family_id, active_family_id[u]), req)
        => CreateVerdict(u, req) = "overlap_400"

\* C23: a create_budget with is_active = false is never rejected for
\* overlap, whatever active budgets of its scope its period meets.
C23_InactiveCandidateNotChecked ==
    \A u \in Users, req \in PlainBudgetCreates :
        BudgetCreateValid(req) /\ ~req.is_active
        => CreateVerdict(u, req) \notin {"overlap_400", "multiple_results_500"}

(***************************************************************************)
(* Allocations on update.                                                  *)
(***************************************************************************)
\* The allocations of b sum to more than its total.
OverAllocated(b) ==
    IsSet(b.total_budget) /\ StoredAllocationSum(b) > Val(b.total_budget)

\* C24: update_budget does not compare allocations and total: a request of
\* the owner that replaces the allocations by a list summing to more than
\* total_budget, or lowers total_budget below the stored sum, is accepted,
\* and the budget it answers with is stored as patched.
C24_UpdateSkipsAllocationCheck ==
    /\ \A u \in Users, id \in BudgetIds, req \in ReallocBudgetUpdates :
          \A b \in OwnBudgets(u, id) :
              OverAllocated(PatchedBudget(b, req))
                  => UpdateBudgetValidation(u, id, req) = "pass"
    /\ resp.op = "update_budget" /\ resp.status = "ok_200" =>
          \E b \in budgets :
              /\ b.id = resp.id
              /\ b.user_id = resp.actor
              /\ resp.stats = BudgetStats(b, transactions)

\* C24 witness: an update was accepted and the budget it left has a total of
\* 1000.00 or 500.00 and allocations of more than that.
C24_Witness ==
    /\ resp.op = "update_budget"
    /\ resp.status = "ok_200"
    /\ \E b \in budgets : b.id = resp.id /\ OverAllocated(b)

(***************************************************************************)
(* Valid periods.                                                          *)
(***************************************************************************)
\* C25: every stored budget has period_end after period_start; a
\* create_budget or update_budget that would leave period_end <=
\* period_start (an update of one of the two dates included) is rejected,
\* and a rejected request leaves the stored budgets as they were.
C25_PeriodValid ==
    [][/\ \A b \in budgets' : b.period_end > b.period_start
       /\ \A req \in PeriodBudgetCreates :
             req.period_end <= req.period_start => ~BudgetCreateValid(req)
       /\ \A u \in Users, id \in BudgetIds, req \in PeriodBudgetUpdates :
             \A b \in OwnBudgets(u, id) :
                 PatchedBudget(b, req).period_end <= PatchedBudget(b, req).period_start
                     => UpdateBudgetValidation(u, id, req) # "pass"
       /\ /\ resp'.op \in {"create_budget", "update_budget"}
          /\ resp'.status \notin {"created_201", "ok_200"}
          => budgets' = budgets]_vars

\* C25 witness: an update of one date of a stored budget was refused by the
\* table's CHECK valid_period.
C25_Witness ==
    /\ resp.op = "update_budget"
    /\ resp.status = "integrity_error_500"
    /\ \E b \in budgets : b.user_id = resp.actor

(***************************************************************************)
(* Membership.                                                             *)
(***************************************************************************)
\* C26: every user's active_family_id is null or names an existing family
\* in which the user has a member row.
C26_ActiveFamilyValid ==
    \A u \in Users :
        active_family_id[u] # NULL =>
            /\ \E f \in families : f.id = active_family_id[u]
            /\ \E m \in family_members :
                  m.family_id = active_family_id[u] /\ m.user_id = u

\* C27: there is at most one member row per (family_id, user_id).
C27_OneRowPerMember ==
    \A m1, m2 \in family_members :
        m1.family_id = m2.family_id /\ m1.user_id = m2.user_id => m1 = m2

\* C28: every existing family has a member with role admin.
C28_AdminRemains ==
    \A f \in families :
        \E m \in family_members : m.family_id = f.id /\ m.role = "admin"

(***************************************************************************)
(* Explicit family_id.                                                     *)
(***************************************************************************)
\* C29: every stored budget with a family_id belongs to a user with a member
\* row in that family (no membership ends in this specification): a
\* create_budget naming a family the caller is not a member of stores
\* nothing.
C29_FamilyBudgetsByMembers ==
    \A b \in budgets :
        b.family_id # NULL =>
            \E m \in family_members :
                m.family_id = b.family_id /\ m.user_id = b.user_id

(***************************************************************************)
(* Category sums against the total.                                        *)
(***************************************************************************)
\* The sum of spent_amount over the category entries of a response body.
CategorySpentSum(stats) ==
    SumAmounts({[category_id |-> c.category_id,
                 allocated_amount |-> c.allocated_amount,
                 amount |-> c.spent_amount] : c \in stats.categories})

\* C30: for every stored budget the spent amounts of its category
\* allocations sum to at most its total_spent, and it has at most one
\* allocation per category.
C30_CategorySumsWithinTotal ==
    \A b \in budgets :
        /\ CategorySpentSum(BudgetStats(b, transactions))
              <= BudgetStats(b, transactions).total_spent
        /\ \A c1, c2 \in b.budget_categories :
              c1.category_id = c2.category_id => c1 = c2

\* C30 witness: a budget with allocations to both categories, each with
\* expenses in the period, and an income in the period that counts for
\* neither; the category sums make up the total of 2300.00.
C30_Witness ==
    \E b \in budgets :
        LET s == BudgetStats(b, transactions)
        IN  /\ Cardinality(s.categories) = 2
            /\ \A c \in s.categories : c.spent_amount > 0
            /\ CategorySpentSum(s) = s.total_spent
            /\ s.total_spent = 230000

=============================================================================
